---- MODULE Spec2Model ----
(***************************************************************************)
(* Model of demoprocess.py: the DemoProcess object (its attributes), the   *)
(* two coroutines run_fast and run_slow, the display setup that            *)
(* initialises the colour attributes, and the dialog commit callbacks.     *)
(*                                                                         *)
(* One action is one uninterrupted stretch of code: the body of a          *)
(* coroutine between two awaits, the display builder, or one commit        *)
(* callback.                                                               *)
(***************************************************************************)
EXTENDS Integers, Sequences, FiniteSets, TLC

(***************************************************************************)
(* Bounds of the model.                                                    *)
(***************************************************************************)
\* Spec: ticks of each coroutine while the user may edit limits and mode.
MaxFastTicks == 5
MaxSlowTicks == 5
\* Spec: dialog commits in one session.
MaxCommits == 2
\* SpecUnattended: ticks of each coroutine when the user never edits.
MaxFastUnattended == 630
MaxSlowUnattended == 42
\* SpecUser: ticks of each coroutine, and keys pressed, in one session.
MaxUserTicks == 2
MaxKeyPresses == 3
MaxStatementTicks == 2
MaxInterrupts == 2
MaxEdits == 1
MaxPollCommits == 1
MaxPollFastTicks == 1

(***************************************************************************)
(* Python floats (IEEE-754 binary64).  Every float the program computes is *)
(* a sum of multiples of 2^-56 (0.1 = 7205759403792794 * 2^-56, and the    *)
(* limits offered to the float dialog are multiples of 1/2), of magnitude  *)
(* below 4.  A float is held exactly as <<hi, lo>>, meaning                *)
(* (hi * 2^29 + lo) * 2^-56 with 0 <= lo < 2^29 and hi of either sign.     *)
(***************************************************************************)
LimbBase == 2^29

FNeg(a) ==
    IF a[2] = 0 THEN <<-a[1], 0>> ELSE <<-a[1] - 1, LimbBase - a[2]>>

FGeq(a, b) == a[1] > b[1] \/ (a[1] = b[1] /\ a[2] >= b[2])

FLeq(a, b) == a[1] < b[1] \/ (a[1] = b[1] /\ a[2] <= b[2])

FLess(a, b) == ~FGeq(a, b)

\* The sum as a real number, before rounding.
FExactAdd(a, b) ==
    LET lo == a[2] + b[2]
    IN  IF lo >= LimbBase THEN <<a[1] + b[1] + 1, lo - LimbBase>>
                          ELSE <<a[1] + b[1], lo>>

\* Spacing of binary64 values (in units of 2^-56) at a magnitude whose
\* high limb is hi: 53 significant bits are kept.
FUlp(hi) ==
    IF hi < 2^24 THEN 1
    ELSE IF hi < 2^25 THEN 2
    ELSE IF hi < 2^26 THEN 4
    ELSE IF hi < 2^27 THEN 8
    ELSE IF hi < 2^28 THEN 16
    ELSE 32

\* Round a non-negative magnitude to nearest, ties to even.
FRoundMag(m) ==
    LET ulp == FUlp(m[1])
        r   == m[2] % ulp
        q   == m[2] - r
        up  == 2 * r > ulp \/ (2 * r = ulp /\ (q \div ulp) % 2 = 1)
        lo  == IF up THEN q + ulp ELSE q
    IN  IF lo = LimbBase THEN <<m[1] + 1, 0>> ELSE <<m[1], lo>>

FRound(a) == IF a[1] < 0 THEN FNeg(FRoundMag(FNeg(a))) ELSE FRoundMag(a)

\* float.__add__
FAdd(a, b) == FRound(FExactAdd(a, b))

\* The float literals of the program.
F_0_0 == <<0, 0>>
F_0_1 == <<13421772, 429496730>>
F_1_0 == <<2^27, 0>>
F_0_5 == <<2^26, 0>>

(***************************************************************************)
(* The enums.                                                              *)
(***************************************************************************)
DemoStates == <<"Disconnected", "Idle", "Cycling", "Faulted">>

DemoStateNames == {DemoStates[i] : i \in 1..Len(DemoStates)}

DemoModes == {"Disabled", "Setup", "Test", "Run"}

(***************************************************************************)
(* What the user can type into the dialogs.                                *)
(***************************************************************************)
IntInputs == {10, 18, 22, 30}

FloatInputs == {FNeg(F_1_0), FNeg(F_0_5), F_0_5, F_1_0}

(***************************************************************************)
(* State.                                                                  *)
(***************************************************************************)
VARIABLES
    current_temperature, _temperature_delta, max_temperature, min_temperature,
    current_state_name, _state_count,
    mode,
    current_percent, _percent_delta, max_percent, min_percent,
    color_defined,      \* the attributes _init_demo_color creates exist
    demo_red_value, demo_green_value, demo_blue_value,
    demo_red_delta, demo_green_delta, demo_blue_delta,
    init_color_args,    \* arguments of the latest curses.init_color call
    display,            \* "none", "built" or "failed": setup_demo_display
    fast_task,          \* "running", or the exception that ended run_fast
    slow_task,          \* "running", or the exception that ended run_slow
    fast_ticks,         \* iterations of run_fast's loop started so far
    slow_ticks,         \* iterations of run_slow's loop started so far
    reselections,       \* calls of random.choice by _update_state so far
    commits,            \* dialog commits so far
    session,            \* "running", or "done" once the UI was told to stop
    keymap,             \* key code -> bound response routine (display keys)
    toolkit_calls,      \* <<key, call>>: what the key responses did, in order
    key_presses,        \* keys dispatched to a response routine so far
    dialog_input,       \* <<field, text>> last entered in an edit dialog
    dialog_result,      \* "none", "committed" or "rejected"
    control,            \* who runs: "runner", "run_fast" or "run_slow"
    fast_pc,            \* run_fast: 0 at its sleep, else the statement next
    slow_pc,            \* run_slow: 0 at its sleep, else the statement next
    returned,           \* <<accessor, result>> of the latest accessor call
    setup_pc,           \* setup_demo_display: 0 before, else the call next
    layout              \* the Textfields made so far, and the local row

temperature == <<current_temperature, _temperature_delta,
                 max_temperature, min_temperature>>
state   == <<current_state_name, _state_count, reselections>>
percent == <<current_percent, _percent_delta, max_percent, min_percent>>
color   == <<color_defined, demo_red_value, demo_green_value, demo_blue_value,
             demo_red_delta, demo_green_delta, demo_blue_delta,
             init_color_args>>
tasks   == <<fast_task, slow_task, fast_ticks, slow_ticks>>
keys    == <<keymap, toolkit_calls, key_presses>>
dialogs == <<dialog_input, dialog_result>>
sched   == <<control, fast_pc, slow_pc>>
building == <<setup_pc, layout>>
ui      == <<session, keys, dialogs, sched, returned, building>>
vars    == <<temperature, state, mode, percent, color, display, tasks,
             commits, ui>>

_state_delay == 5
max_color_value == 999
min_color_value == 0

(***************************************************************************)
(* DemoProcess.__init__                                                    *)
(***************************************************************************)
Init ==
    /\ current_temperature = 20
    /\ _temperature_delta = 1
    /\ max_temperature = 30
    /\ min_temperature = 10
    /\ current_state_name = "Disconnected"
    /\ _state_count = _state_delay
    /\ mode = "Disabled"
    /\ color_defined = FALSE
    /\ demo_red_value = 0
    /\ demo_green_value = 0
    /\ demo_blue_value = 0
    /\ demo_red_delta = 0
    /\ demo_green_delta = 0
    /\ demo_blue_delta = 0
    /\ init_color_args = <<>>
    /\ current_percent = F_0_0
    /\ _percent_delta = F_0_1
    /\ max_percent = F_1_0
    /\ min_percent = FNeg(F_1_0)
    /\ display = "none"
    /\ fast_task = "running"
    /\ slow_task = "running"
    /\ fast_ticks = 0
    /\ slow_ticks = 0
    /\ reselections = 0
    /\ commits = 0
    /\ session = "running"
    /\ keymap = <<>>
    /\ toolkit_calls = <<>>
    /\ key_presses = 0
    /\ dialog_input = <<>>
    /\ dialog_result = "none"
    /\ control = "runner"
    /\ fast_pc = 0
    /\ slow_pc = 0
    /\ returned = <<>>
    /\ setup_pc = 0
    /\ layout = [fields |-> <<>>, row |-> 0]

(***************************************************************************)
(* The update methods.                                                     *)
(***************************************************************************)
\* A variant that misses equality at the limits.
_update_temperature_strict ==
    LET t == current_temperature + _temperature_delta
    IN  /\ current_temperature' = t
        /\ _temperature_delta' =
               IF t > max_temperature \/ t < min_temperature
               THEN _temperature_delta * (-1)
               ELSE _temperature_delta
        /\ UNCHANGED <<max_temperature, min_temperature>>

\* A variant that clamps the temperature to its limits.
_update_temperature_clamped ==
    LET t == current_temperature + _temperature_delta
    IN  /\ current_temperature' =
               IF t >= max_temperature THEN max_temperature - 1
               ELSE IF t <= min_temperature THEN min_temperature + 1 ELSE t
        /\ _temperature_delta' =
               IF t >= max_temperature \/ t <= min_temperature
               THEN _temperature_delta * (-1)
               ELSE _temperature_delta
        /\ UNCHANGED <<max_temperature, min_temperature>>

_update_temperature ==
    LET t == current_temperature + _temperature_delta
    IN  /\ current_temperature' = t
        /\ _temperature_delta' =
               IF t >= max_temperature \/ t <= min_temperature
               THEN _temperature_delta * (-1)
               ELSE _temperature_delta
        /\ UNCHANGED <<max_temperature, min_temperature>>

\* A variant that tests the limits before adding the step.
_update_percent_checks_first ==
    /\ current_percent' = FAdd(current_percent, _percent_delta)
    /\ _percent_delta' =
           IF \/ FGeq(current_percent, max_percent)
              \/ FLeq(current_percent, min_percent)
           THEN FNeg(_percent_delta)
           ELSE _percent_delta
    /\ UNCHANGED <<max_percent, min_percent>>

_update_percent ==
    LET p == FAdd(current_percent, _percent_delta)
    IN  /\ current_percent' = p
        /\ _percent_delta' =
               IF FGeq(p, max_percent) \/ FLeq(p, min_percent)
               THEN FNeg(_percent_delta)
               ELSE _percent_delta
        /\ UNCHANGED <<max_percent, min_percent>>

\* A variant whose countdown runs one call too long.
_update_state_late ==
    LET c == _state_count - 1
    IN  IF c < 0
        THEN /\ _state_count' = _state_delay
             /\ \E i \in 1..Len(DemoStates) : current_state_name' = DemoStates[i]
             /\ reselections' = reselections + 1
        ELSE /\ _state_count' = c
             /\ UNCHANGED <<current_state_name, reselections>>

_update_state ==
    LET c == _state_count - 1
    IN  IF c <= 0
        THEN /\ _state_count' = _state_delay
             /\ \E i \in 1..Len(DemoStates) : current_state_name' = DemoStates[i]
             /\ reselections' = reselections + 1
        ELSE /\ _state_count' = c
             /\ UNCHANGED <<current_state_name, reselections>>

Max(a, b) == IF a >= b THEN a ELSE b

Min(a, b) == IF a <= b THEN a ELSE b

\* A variant that limits the arguments from above only.
_set_demo_color_upper_only(red, green, blue) ==
    init_color_args' =
        << Min(max_color_value, red),
           Min(max_color_value, green),
           Min(max_color_value, blue) >>

\* The arguments _set_demo_color hands to curses.init_color.  Whether the
\* call raises curses.error is the terminal's choice, made by the caller.
_set_demo_color(red, green, blue) ==
    init_color_args' =
        << Min(max_color_value, Max(red, min_color_value)),
           Min(max_color_value, Max(green, min_color_value)),
           Min(max_color_value, Max(blue, min_color_value)) >>

\* A variant that tests the limits before adding the deltas.
_update_color_checks_first ==
    LET r == demo_red_value + demo_red_delta
        g == demo_green_value + demo_green_delta
        b == demo_blue_value + demo_blue_delta
    IN  /\ demo_red_value' = r
        /\ demo_red_delta' =
               IF \/ demo_red_value >= max_color_value
                  \/ demo_red_value <= min_color_value
               THEN demo_red_delta * (-1) ELSE demo_red_delta
        /\ demo_green_value' = g
        /\ demo_green_delta' =
               IF \/ demo_green_value >= max_color_value
                  \/ demo_green_value <= min_color_value
               THEN demo_green_delta * (-1) ELSE demo_green_delta
        /\ demo_blue_value' = b
        /\ demo_blue_delta' =
               IF \/ demo_blue_value >= max_color_value
                  \/ demo_blue_value <= min_color_value
               THEN demo_blue_delta * (-1) ELSE demo_blue_delta
        /\ _set_demo_color(r, g, b)
        /\ UNCHANGED color_defined

\* A variant whose red branch reverses the green delta into the red one.
_update_color_copied_branch ==
    LET r == demo_red_value + demo_red_delta
        g == demo_green_value + demo_green_delta
        b == demo_blue_value + demo_blue_delta
    IN  /\ demo_red_value' = r
        /\ demo_red_delta' =
               IF r >= max_color_value \/ r <= min_color_value
               THEN demo_green_delta * (-1) ELSE demo_red_delta
        /\ demo_green_value' = g
        /\ demo_green_delta' =
               IF g >= max_color_value \/ g <= min_color_value
               THEN demo_green_delta * (-1) ELSE demo_green_delta
        /\ demo_blue_value' = b
        /\ demo_blue_delta' =
               IF b >= max_color_value \/ b <= min_color_value
               THEN demo_blue_delta * (-1) ELSE demo_blue_delta
        /\ _set_demo_color(r, g, b)
        /\ UNCHANGED color_defined

_update_color ==
    LET r == demo_red_value + demo_red_delta
        g == demo_green_value + demo_green_delta
        b == demo_blue_value + demo_blue_delta
    IN  /\ demo_red_value' = r
        /\ demo_red_delta' =
               IF r >= max_color_value \/ r <= min_color_value
               THEN demo_red_delta * (-1) ELSE demo_red_delta
        /\ demo_green_value' = g
        /\ demo_green_delta' =
               IF g >= max_color_value \/ g <= min_color_value
               THEN demo_green_delta * (-1) ELSE demo_green_delta
        /\ demo_blue_value' = b
        /\ demo_blue_delta' =
               IF b >= max_color_value \/ b <= min_color_value
               THEN demo_blue_delta * (-1) ELSE demo_blue_delta
        /\ _set_demo_color(r, g, b)
        /\ UNCHANGED color_defined

\* A variant that gives the three channels the same delta.
_init_demo_color_equal_steps ==
    /\ color_defined' = TRUE
    /\ demo_red_value' = 500
    /\ demo_green_value' = 500
    /\ demo_blue_value' = 500
    /\ demo_red_delta' = 3
    /\ demo_green_delta' = 3
    /\ demo_blue_delta' = 3
    /\ _set_demo_color(500, 500, 500)

_init_demo_color ==
    /\ color_defined' = TRUE
    /\ demo_red_value' = 500
    /\ demo_green_value' = 500
    /\ demo_blue_value' = 500
    /\ demo_red_delta' = 3
    /\ demo_green_delta' = 6
    /\ demo_blue_delta' = 9
    /\ _set_demo_color(500, 500, 500)

(***************************************************************************)
(* The coroutines: one action is one iteration of the loop, up to its      *)
(* await.  init_color_ok is whether curses.init_color accepts the call.    *)
(* An exception leaves the loop and ends the coroutine; the attributes     *)
(* assigned before it stay assigned.  Before _init_demo_color the          *)
(* attribute demo_red_value does not exist and the first statement of      *)
(* _update_color raises AttributeError.                                    *)
(***************************************************************************)
\* A variant whose loop body also advances the temperature.
run_fast_with_temperature(init_color_ok) ==
    /\ fast_task = "running"
    /\ fast_ticks' = fast_ticks + 1
    /\ _update_temperature
    /\ IF ~color_defined
       THEN /\ fast_task' = "AttributeError"
            /\ UNCHANGED <<color, percent>>
       ELSE /\ _update_color
            /\ IF init_color_ok
               THEN /\ _update_percent
                    /\ UNCHANGED fast_task
               ELSE /\ fast_task' = "curses.error"
                    /\ UNCHANGED percent
    /\ UNCHANGED <<state, mode, display, slow_task, slow_ticks, commits, ui>>

run_fast(init_color_ok) ==
    /\ fast_task = "running"
    /\ fast_ticks' = fast_ticks + 1
    /\ IF ~color_defined
       THEN /\ fast_task' = "AttributeError"
            /\ UNCHANGED <<color, percent>>
       ELSE /\ _update_color
            /\ IF init_color_ok
               THEN /\ _update_percent
                    /\ UNCHANGED fast_task
               ELSE /\ fast_task' = "curses.error"
                    /\ UNCHANGED percent
    /\ UNCHANGED <<temperature, state, mode, display, slow_task, slow_ticks,
                   commits, ui>>

\* A variant whose tick puts the mode back to its default.
run_slow_resets_mode(init_color_ok) ==
    /\ slow_task = "running"
    /\ slow_ticks' = slow_ticks + 1
    /\ _update_temperature
    /\ _update_state
    /\ IF ~color_defined
       THEN /\ slow_task' = "AttributeError"
            /\ UNCHANGED color
       ELSE /\ _update_color
            /\ slow_task' = IF init_color_ok THEN slow_task ELSE "curses.error"
    /\ mode' = "Disabled"
    /\ UNCHANGED <<percent, display, fast_task, fast_ticks, commits, ui>>

run_slow(init_color_ok) ==
    /\ slow_task = "running"
    /\ slow_ticks' = slow_ticks + 1
    /\ _update_temperature
    /\ _update_state
    /\ IF ~color_defined
       THEN /\ slow_task' = "AttributeError"
            /\ UNCHANGED color
       ELSE /\ _update_color
            /\ slow_task' = IF init_color_ok THEN slow_task ELSE "curses.error"
    /\ UNCHANGED <<mode, percent, display, fast_task, fast_ticks, commits,
                   ui>>

(***************************************************************************)
(* The read accessors.  Each formats the attribute it reads; none assigns  *)
(* anything.                                                               *)
(***************************************************************************)
DigitChar(d) ==
    <<"0", "1", "2", "3", "4", "5", "6", "7", "8", "9">>[d + 1]

RECURSIVE NatText(_)
NatText(n) ==
    IF n < 10 THEN DigitChar(n)
    ELSE NatText(n \div 10) \o DigitChar(n % 10)

\* "{0}".format(n) for an int
IntText(n) == IF n < 0 THEN "-" \o NatText(0 - n) ELSE NatText(n)

FMagnitude(v) == IF FLess(v, F_0_0) THEN FNeg(v) ELSE v

\* The magnitude times 100, rounded to an integer as "{:.2f}" rounds: to
\* nearest, ties to even, from the exact binary value.  The product is
\* formed column by column, on pieces of 13 to 15 bits.
Hundredths(mag) ==
    LET a  == mag[1] \div 2^27
        b  == mag[1] % 2^27
        b1 == b \div 2^13
        b0 == b % 2^13
        c1 == mag[2] \div 2^15
        c0 == mag[2] % 2^15
        x0 == 100 * c0
        x1 == 100 * c1 + x0 \div 2^15
        x2 == 100 * b0 + x1 \div 2^14
        x3 == 100 * b1 + x2 \div 2^13
        h  == 100 * a + x3 \div 2^14
        r3 == x3 % 2^14
        rest == <<x2 % 2^13, x1 % 2^14, x0 % 2^15>>
        up == \/ r3 > 2^13
              \/ r3 = 2^13 /\ (rest # <<0, 0, 0>> \/ h % 2 = 1)
    IN  IF up THEN h + 1 ELSE h

\* "{:.2f}".format(v)
FixedText(v) ==
    LET h == Hundredths(FMagnitude(v))
    IN  (IF FLess(v, F_0_0) THEN "-" ELSE "")
          \o NatText(h \div 100) \o "."
          \o DigitChar((h % 100) \div 10) \o DigitChar(h % 10)

\* "{0}".format(v) for a float: its repr.  The limits only ever hold
\* multiples of 1/2.
FloatText(v) ==
    LET mag == FMagnitude(v)
        half == <<mag[1] % 2^27, mag[2]>>
    IN  (IF FLess(v, F_0_0) THEN "-" ELSE "")
          \o NatText(mag[1] \div 2^27) \o "."
          \o (CASE half = <<0, 0>> -> "0" [] half = <<2^26, 0>> -> "5")

\* DemoModes: member.value
DemoModeValue(m) ==
    CASE m = "Disabled" -> 22 [] m = "Setup" -> 44
      [] m = "Test" -> 33 [] m = "Run" -> 11

get_demo_color_text ==
    "Color: R:" \o IntText(demo_red_value)
      \o " G:" \o IntText(demo_green_value)
      \o " B:" \o IntText(demo_blue_value)

\* A variant that shows the maximum in place of the current temperature.
get_demo_temperature_text_of_limit ==
    "Current Temp: " \o IntText(max_temperature)

get_demo_temperature_text ==
    "Current Temp: " \o IntText(current_temperature)

get_demo_percent_text == "Percent: " \o FixedText(current_percent)

get_demo_state_text == "Current State: " \o current_state_name

get_demo_mode_text == "Current Mode: " \o mode

get_demo_mode_value == DemoModeValue(mode)

get_demo_tmax_text == "Max Temperature: " \o IntText(max_temperature)

get_demo_tmin_text == "Min Temperature: " \o IntText(min_temperature)

get_demo_pmax_text == "Max Percent: " \o FloatText(max_percent)

get_demo_pmin_text == "Min Percent: " \o FloatText(min_percent)

Accessors ==
    {"get_demo_color_text", "get_demo_temperature_text",
     "get_demo_percent_text", "get_demo_state_text", "get_demo_mode_text",
     "get_demo_mode_value", "get_demo_tmax_text", "get_demo_tmin_text",
     "get_demo_pmax_text", "get_demo_pmin_text"}

Result(accessor) ==
    CASE accessor = "get_demo_color_text" -> get_demo_color_text
      [] accessor = "get_demo_temperature_text" -> get_demo_temperature_text
      [] accessor = "get_demo_percent_text" -> get_demo_percent_text
      [] accessor = "get_demo_state_text" -> get_demo_state_text
      [] accessor = "get_demo_mode_text" -> get_demo_mode_text
      [] accessor = "get_demo_mode_value" -> get_demo_mode_value
      [] accessor = "get_demo_tmax_text" -> get_demo_tmax_text
      [] accessor = "get_demo_tmin_text" -> get_demo_tmin_text
      [] accessor = "get_demo_pmax_text" -> get_demo_pmax_text
      [] accessor = "get_demo_pmin_text" -> get_demo_pmin_text

\* The display polls a field: it calls the accessor set as the field's
\* update callback and shows what it returns.
Poll(accessor) ==
    /\ display = "built"
    /\ session = "running"
    /\ returned' = <<accessor, Result(accessor)>>
    /\ UNCHANGED <<temperature, state, mode, percent, color, display, tasks,
                   commits, session, keys, dialogs, sched, building>>

(***************************************************************************)
(* The coroutines statement by statement.  The runner resumes one          *)
(* coroutine, which runs until its await hands control back; nothing else  *)
(* runs in between.  The three channels of _update_color are separate      *)
(* statements.                                                             *)
(***************************************************************************)
\* A variant of run_fast that sleeps between its two updates as well.
run_fast_body_yields_midway ==
    <<"red", "green", "blue", "_set_demo_color", "await",
      "_update_percent", "await">>

run_fast_body ==
    <<"red", "green", "blue", "_set_demo_color", "_update_percent", "await">>

run_slow_body ==
    <<"_update_temperature", "_update_state",
      "red", "green", "blue", "_set_demo_color", "await">>

\* The exception a statement raises, or "none".
Raises(stmt, init_color_ok) ==
    IF stmt = "red" /\ ~color_defined THEN "AttributeError"
    ELSE IF stmt = "_set_demo_color" /\ ~init_color_ok THEN "curses.error"
    ELSE "none"

\* What a statement assigns.
Execute(stmt) ==
    CASE stmt = "_update_temperature" ->
           _update_temperature /\ UNCHANGED <<state, percent, color>>
      [] stmt = "_update_state" ->
           _update_state /\ UNCHANGED <<temperature, percent, color>>
      [] stmt = "_update_percent" ->
           _update_percent /\ UNCHANGED <<temperature, state, color>>
      [] stmt = "red" ->
           /\ IF color_defined
              THEN LET r == demo_red_value + demo_red_delta IN
                   /\ demo_red_value' = r
                   /\ demo_red_delta' =
                          IF r >= max_color_value \/ r <= min_color_value
                          THEN demo_red_delta * (-1) ELSE demo_red_delta
              ELSE UNCHANGED <<demo_red_value, demo_red_delta>>
           /\ UNCHANGED <<temperature, state, percent, color_defined,
                          demo_green_value, demo_green_delta,
                          demo_blue_value, demo_blue_delta, init_color_args>>
      [] stmt = "green" ->
           /\ LET g == demo_green_value + demo_green_delta IN
              /\ demo_green_value' = g
              /\ demo_green_delta' =
                     IF g >= max_color_value \/ g <= min_color_value
                     THEN demo_green_delta * (-1) ELSE demo_green_delta
           /\ UNCHANGED <<temperature, state, percent, color_defined,
                          demo_red_value, demo_red_delta,
                          demo_blue_value, demo_blue_delta, init_color_args>>
      [] stmt = "blue" ->
           /\ LET b == demo_blue_value + demo_blue_delta IN
              /\ demo_blue_value' = b
              /\ demo_blue_delta' =
                     IF b >= max_color_value \/ b <= min_color_value
                     THEN demo_blue_delta * (-1) ELSE demo_blue_delta
           /\ UNCHANGED <<temperature, state, percent, color_defined,
                          demo_red_value, demo_red_delta,
                          demo_green_value, demo_green_delta,
                          init_color_args>>
      [] stmt = "_set_demo_color" ->
           /\ _set_demo_color(demo_red_value, demo_green_value,
                              demo_blue_value)
           /\ UNCHANGED <<temperature, state, percent, color_defined,
                          demo_red_value, demo_red_delta,
                          demo_green_value, demo_green_delta,
                          demo_blue_value, demo_blue_delta>>
      [] stmt = "await" ->
           UNCHANGED <<temperature, state, percent, color>>

\* The runner resumes run_fast: at the top of its loop, or where it slept.
ResumeFast ==
    /\ control = "runner"
    /\ session = "running"
    /\ fast_task = "running"
    /\ IF fast_pc = 0
       THEN /\ fast_ticks < MaxStatementTicks
            /\ fast_ticks' = fast_ticks + 1
            /\ fast_pc' = 1
       ELSE UNCHANGED <<fast_ticks, fast_pc>>
    /\ control' = "run_fast"
    /\ UNCHANGED <<temperature, state, mode, percent, color, display,
                   fast_task, slow_task, slow_ticks, commits, session, keys,
                   dialogs, slow_pc, returned,
                   building>>

ResumeSlow ==
    /\ control = "runner"
    /\ session = "running"
    /\ slow_task = "running"
    /\ IF slow_pc = 0
       THEN /\ slow_ticks < MaxStatementTicks
            /\ slow_ticks' = slow_ticks + 1
            /\ slow_pc' = 1
       ELSE UNCHANGED <<slow_ticks, slow_pc>>
    /\ control' = "run_slow"
    /\ UNCHANGED <<temperature, state, mode, percent, color, display,
                   fast_task, slow_task, fast_ticks, commits, session, keys,
                   dialogs, fast_pc, returned,
                   building>>

\* run_fast executes its next statement.
StepFast ==
    /\ control = "run_fast"
    /\ \E init_color_ok \in BOOLEAN :
         LET stmt == run_fast_body[fast_pc]
             exc == Raises(stmt, init_color_ok)
         IN  /\ Execute(stmt)
             /\ IF exc # "none"
                THEN /\ fast_task' = exc
                     /\ fast_pc' = 0
                     /\ control' = "runner"
                ELSE /\ UNCHANGED fast_task
                     /\ fast_pc' = IF fast_pc = Len(run_fast_body) THEN 0
                                   ELSE fast_pc + 1
                     /\ control' = IF stmt = "await" THEN "runner"
                                   ELSE control
    /\ UNCHANGED <<mode, display, slow_task, fast_ticks, slow_ticks, commits,
                   session, keys, dialogs, slow_pc, returned,
                   building>>

\* run_slow executes its next statement.
StepSlow ==
    /\ control = "run_slow"
    /\ \E init_color_ok \in BOOLEAN :
         LET stmt == run_slow_body[slow_pc]
             exc == Raises(stmt, init_color_ok)
         IN  /\ Execute(stmt)
             /\ IF exc # "none"
                THEN /\ slow_task' = exc
                     /\ slow_pc' = 0
                     /\ control' = "runner"
                ELSE /\ UNCHANGED slow_task
                     /\ slow_pc' = IF slow_pc = Len(run_slow_body) THEN 0
                                   ELSE slow_pc + 1
                     /\ control' = IF stmt = "await" THEN "runner"
                                   ELSE control
    /\ UNCHANGED <<mode, display, fast_task, fast_ticks, slow_ticks, commits,
                   session, keys, dialogs, fast_pc, returned,
                   building>>

(***************************************************************************)
(* Key codes (curses, curses.ascii) and the key responses.                 *)
(***************************************************************************)
KEY_DOWN == 258
KEY_UP == 259
KEY_LEFT == 260
KEY_RIGHT == 261
CTRL_X == 24
CTRL_P == 16
TAB == 9
LF == 10
\* A key no response is created for: ord('a').
OTHER_KEY == 97

Keys == {KEY_UP, KEY_DOWN, KEY_RIGHT, KEY_LEFT, CTRL_X, CTRL_P, TAB, LF,
         OTHER_KEY}

arrow_key_list == {KEY_UP, KEY_DOWN, KEY_RIGHT, KEY_LEFT}

\* KeyResponse(name, keylist), display.add_key(it) and it.bind(routine).
BindKeys(map, keylist, routine) ==
    [k \in (DOMAIN map) \cup keylist |->
        IF k \in keylist THEN routine ELSE map[k]]

\* The call a response routine makes, logged with the key that caused it.
Call(keyhit, what) ==
    toolkit_calls' = Append(toolkit_calls, <<keyhit, what>>)

\* A variant with the branches for right and left exchanged.
_kr_scroll_msgwin_swapped(keyhit) ==
    /\ IF keyhit = KEY_UP THEN Call(keyhit, "msgwin.scroll_up")
       ELSE IF keyhit = KEY_DOWN THEN Call(keyhit, "msgwin.scroll_down")
       ELSE IF keyhit = KEY_RIGHT THEN Call(keyhit, "msgwin.scroll_left")
       ELSE IF keyhit = KEY_LEFT THEN Call(keyhit, "msgwin.scroll_right")
       ELSE UNCHANGED toolkit_calls
    /\ UNCHANGED session

_kr_scroll_msgwin(keyhit) ==
    /\ IF keyhit = KEY_UP THEN Call(keyhit, "msgwin.scroll_up")
       ELSE IF keyhit = KEY_DOWN THEN Call(keyhit, "msgwin.scroll_down")
       ELSE IF keyhit = KEY_RIGHT THEN Call(keyhit, "msgwin.scroll_right")
       ELSE IF keyhit = KEY_LEFT THEN Call(keyhit, "msgwin.scroll_left")
       ELSE UNCHANGED toolkit_calls
    /\ UNCHANGED session

\* print("Msg: ..."): a line goes to the output buffer.
_kr_ctrl_p_response(keyhit) ==
    /\ Call(keyhit, "print")
    /\ UNCHANGED session

\* demo_ui.kr_done_with_ui: the runner is told to stop; the coroutines and
\* the key responses are abandoned.
kr_done_with_ui(keyhit) ==
    /\ Call(keyhit, "demo_ui.kr_done_with_ui")
    /\ session' = "done"

kr_select_next_child(keyhit) ==
    /\ Call(keyhit, "display.kr_select_next_child")
    /\ UNCHANGED session

kr_begin_child_edit(keyhit) ==
    /\ Call(keyhit, "display.kr_begin_child_edit")
    /\ UNCHANGED session

\* The display Window looks the key up among the responses added to it
\* and calls the routine bound to it, with the key.
KeyPress(keyhit) ==
    /\ session = "running"
    /\ keyhit \in DOMAIN keymap
    /\ key_presses' = key_presses + 1
    /\ CASE keymap[keyhit] = "_kr_scroll_msgwin" -> _kr_scroll_msgwin(keyhit)
         [] keymap[keyhit] = "_kr_ctrl_p_response" ->
                _kr_ctrl_p_response(keyhit)
         [] keymap[keyhit] = "kr_done_with_ui" -> kr_done_with_ui(keyhit)
         [] keymap[keyhit] = "kr_select_next_child" ->
                kr_select_next_child(keyhit)
         [] keymap[keyhit] = "kr_begin_child_edit" ->
                kr_begin_child_edit(keyhit)
    /\ UNCHANGED <<temperature, state, mode, percent, color, display, tasks,
                   commits, keymap, dialogs, sched,
                   returned,
                   building>>

\* The calls the builder makes on a Textfield it sets an update callback
\* on and then asks for its rows; a variant that asks before it updates.
field_calls_queries_first(f) ==
    << <<f, "Textfield">>, <<f, "set_update_cb">>, <<f, "add_field">>,
       <<f, "get_required_rows">>, <<f, "update">> >>

field_calls(f) ==
    << <<f, "Textfield">>, <<f, "set_update_cb">>, <<f, "add_field">>,
       <<f, "update">>, <<f, "get_required_rows">> >>

\* The calls of setup_demo_display that make, fill and place Textfields,
\* in the order of the source.
setup_calls ==
    << <<"menuwin", "get_first_row">>, <<"menu1field", "Textfield">>,
       <<"menu1field", "write">>, <<"menu1field", "add_field">>,
       <<"stswin", "get_first_row">> >>
    \o << <<"timefield", "Textfield">>, <<"timefield", "set_update_cb">>,
          <<"timefield", "add_field">>, <<"timefield", "update">>,
          <<"timefield", "get_required_rows">>, <<"row", "+= 1">> >>
    \o field_calls("tempfield")
    \o field_calls("statefield")
    \o << <<"self", "_init_demo_color">> >>
    \o << <<"colorfield", "Textfield">>, <<"colorfield", "set_update_cb">>,
          <<"colorfield", "add_field">>, <<"colorfield", "add_attrs">>,
          <<"colorfield", "update">>, <<"colorfield", "get_required_rows">> >>
    \o field_calls("percentfield")
    \o << <<"ctlwin", "get_first_row">> >>
    \o field_calls("tmaxfield")
    \o field_calls("tminfield")
    \o field_calls("modefield")
    \o field_calls("pmaxfield")
    \o field_calls("pminfield")
    \o << <<"tmaxfield", "set_dialog">>, <<"tminfield", "set_dialog">>,
          <<"modefield", "set_dialog">>, <<"pmaxfield", "set_dialog">>,
          <<"pminfield", "set_dialog">> >>
    \o << <<"msgfield", "Textfield(0, 0)">>, <<"msgfield", "set_update_cb">>,
          <<"msgfield", "add_field">>, <<"arrow_keys", "bind">> >>

InitColorAt ==
    CHOOSE i \in DOMAIN setup_calls : setup_calls[i][2] = "_init_demo_color"

\* get_first_row of a bordered window.
first_row == 1

NewTextfield(at) ==
    [cb |-> FALSE, content |-> FALSE, invoked |-> 0, row |-> at, rows |-> -1]

\* What a call does to the Textfields and to the local variable row.  A
\* Textfield's update calls its update callback, if it has one, and keeps
\* the text; get_required_rows is the number of lines of the text kept,
\* 0 while there is none (src 343-347).  Every text here is one line.
ApplyCall(lay, call) ==
    LET f == call[1]
        m == call[2]
    IN  CASE m = "Textfield" ->
               [lay EXCEPT
                   !.fields = lay.fields @@ (f :> NewTextfield(lay.row))]
          [] m = "Textfield(0, 0)" ->
               [lay EXCEPT !.fields = lay.fields @@ (f :> NewTextfield(0))]
          [] m = "write" -> [lay EXCEPT !.fields[f].content = TRUE]
          [] m = "set_update_cb" -> [lay EXCEPT !.fields[f].cb = TRUE]
          [] m = "update" ->
               IF lay.fields[f].cb
               THEN [lay EXCEPT !.fields[f].content = TRUE,
                                !.fields[f].invoked = @ + 1]
               ELSE lay
          [] m = "get_required_rows" ->
               LET n == IF lay.fields[f].content THEN 1 ELSE 0
               IN  [lay EXCEPT !.fields[f].rows = n, !.row = @ + n]
          [] m = "+= 1" -> [lay EXCEPT !.row = @ + 1]
          [] m = "get_first_row" -> [lay EXCEPT !.row = first_row]
          [] OTHER -> lay

RECURSIVE RunCalls(_, _, _)
RunCalls(lay, i, n) ==
    IF i > n THEN lay
    ELSE IF i = n THEN ApplyCall(lay, setup_calls[i])
    ELSE LET mid == (i + n) \div 2
         IN  RunCalls(RunCalls(lay, i, mid), mid + 1, n)

\* No Textfield exists before the builder is called.
layout_before == [fields |-> <<>>, row |-> 0]

\* The Textfields when the builder returns, and when _init_demo_color
\* raises and ends it.
layout_built == RunCalls(layout_before, 1, Len(setup_calls))

layout_failed == RunCalls(layout_before, 1, InitColorAt)

(***************************************************************************)
(* setup_demo_display: the part that touches the DemoProcess is the call   *)
(* of _init_demo_color; the dialogs are attached and the arrow keys bound  *)
(* after it, so they exist only when it returned.                          *)
(***************************************************************************)
setup_demo_display(init_color_ok) ==
    /\ display = "none"
    /\ setup_pc = 0
    /\ _init_demo_color
    /\ display' = IF init_color_ok THEN "built" ELSE "failed"
    /\ keymap' = IF init_color_ok
                 THEN BindKeys(keymap, arrow_key_list, "_kr_scroll_msgwin")
                 ELSE keymap
    /\ setup_pc' = Len(setup_calls) + 1
    /\ layout' = IF init_color_ok THEN layout_built ELSE layout_failed
    /\ UNCHANGED <<temperature, state, mode, percent, tasks, commits,
                   session, toolkit_calls, key_presses, dialogs, sched,
                   returned>>

\* setup_demo_display call by call.  Nothing else runs before it returns:
\* it has no await.
BeginSetup ==
    /\ display = "none"
    /\ setup_pc = 0
    /\ setup_pc' = 1
    /\ UNCHANGED <<temperature, state, mode, percent, color, display, tasks,
                   commits, session, keys, dialogs, sched, returned, layout>>

SetupCall ==
    /\ setup_pc \in DOMAIN setup_calls
    /\ LET call == setup_calls[setup_pc]
           last == setup_pc = Len(setup_calls)
       IN  /\ layout' = ApplyCall(layout, call)
           /\ IF call[2] = "_init_demo_color"
              THEN /\ _init_demo_color
                   /\ \E init_color_ok \in BOOLEAN :
                        IF init_color_ok
                        THEN setup_pc' = setup_pc + 1 /\ UNCHANGED display
                        ELSE /\ setup_pc' = Len(setup_calls) + 1
                             /\ display' = "failed"
                   /\ UNCHANGED keymap
              ELSE /\ setup_pc' = setup_pc + 1
                   /\ display' = IF last THEN "built" ELSE display
                   /\ keymap' =
                          IF call[2] = "bind"
                          THEN BindKeys(keymap, arrow_key_list,
                                        "_kr_scroll_msgwin")
                          ELSE keymap
                   /\ UNCHANGED color
    /\ UNCHANGED <<temperature, state, mode, percent, tasks, commits,
                   session, toolkit_calls, key_presses, dialogs, sched,
                   returned>>

\* setup_demo_responses: called once, by the CursesUI that was given it.
setup_demo_responses ==
    /\ CTRL_X \notin DOMAIN keymap
    /\ keymap' =
           BindKeys(
             BindKeys(
               BindKeys(
                 BindKeys(keymap, {CTRL_X}, "kr_done_with_ui"),
                 {CTRL_P}, "_kr_ctrl_p_response"),
               {TAB}, "kr_select_next_child"),
             {LF}, "kr_begin_child_edit")
    /\ UNCHANGED <<temperature, state, mode, percent, color, display, tasks,
                   commits, session, toolkit_calls, key_presses, dialogs, sched,
                   returned,
                   building>>

(***************************************************************************)
(* The write accessors, called by the dialogs' commits.                    *)
(***************************************************************************)
set_demo_mode(newmode) ==
    /\ display = "built"
    /\ mode' = newmode
    /\ UNCHANGED <<temperature, state, percent, color, display, tasks,
                   session, keys>>

\* A variant that pulls the current temperature down to the new maximum.
set_demo_max_temperature_clamps(tmax) ==
    /\ display = "built"
    /\ max_temperature' = tmax
    /\ current_temperature' = Min(current_temperature, tmax)
    /\ UNCHANGED <<_temperature_delta, min_temperature,
                   state, mode, percent, color, display, tasks,
                   session, keys>>

set_demo_max_temperature(tmax) ==
    /\ display = "built"
    /\ max_temperature' = tmax
    /\ UNCHANGED <<current_temperature, _temperature_delta, min_temperature,
                   state, mode, percent, color, display, tasks,
                   session, keys>>

set_demo_min_temperature(tmin) ==
    /\ display = "built"
    /\ min_temperature' = tmin
    /\ UNCHANGED <<current_temperature, _temperature_delta, max_temperature,
                   state, mode, percent, color, display, tasks,
                   session, keys>>

set_demo_max_percent(pmax) ==
    /\ display = "built"
    /\ max_percent' = pmax
    /\ UNCHANGED <<current_percent, _percent_delta, min_percent,
                   temperature, state, mode, color, display, tasks,
                   session, keys>>

set_demo_min_percent(pmin) ==
    /\ display = "built"
    /\ min_percent' = pmin
    /\ UNCHANGED <<current_percent, _percent_delta, max_percent,
                   temperature, state, mode, color, display, tasks,
                   session, keys>>

(***************************************************************************)
(* The edit dialogs attached to the five control fields.  A dialog takes   *)
(* the text the user typed, converts it to its kind and calls the routine  *)
(* it was given with the converted value; a text that does not convert is  *)
(* dropped and the field keeps its value.  Texts are sequences of          *)
(* characters.                                                             *)
(***************************************************************************)
Digits == {"0", "1", "2", "3", "4", "5", "6", "7", "8", "9"}

DigitValue(c) ==
    CASE c = "0" -> 0 [] c = "1" -> 1 [] c = "2" -> 2 [] c = "3" -> 3
      [] c = "4" -> 4 [] c = "5" -> 5 [] c = "6" -> 6 [] c = "7" -> 7
      [] c = "8" -> 8 [] c = "9" -> 9

RECURSIVE DigitsValue(_)
DigitsValue(s) ==
    IF s = <<>> THEN 0
    ELSE 10 * DigitsValue(SubSeq(s, 1, Len(s) - 1)) + DigitValue(s[Len(s)])

RECURSIVE Join(_)
Join(s) == IF s = <<>> THEN "" ELSE s[1] \o Join(Tail(s))

Negative(s) == s # <<>> /\ s[1] = "-"
Unsigned(s) == IF s # <<>> /\ s[1] \in {"-", "+"} THEN Tail(s) ELSE s
IsDigits(s) == s # <<>> /\ \A i \in DOMAIN s : s[i] \in Digits

\* int(text)
IsIntText(s) == IsDigits(Unsigned(s))
IntOfText(s) ==
    IF Negative(s) THEN 0 - DigitsValue(Unsigned(s))
    ELSE DigitsValue(Unsigned(s))

\* float(text), for texts without an exponent: digits with at most one
\* point and at least one digit.
PointsOf(s) == {i \in DOMAIN s : s[i] = "."}
IsFloatText(s) ==
    LET u == Unsigned(s) IN
    /\ Cardinality(PointsOf(u)) <= 1
    /\ \E i \in DOMAIN u : u[i] \in Digits
    /\ \A i \in DOMAIN u : u[i] \in Digits \cup {"."}

RECURSIVE IntToFloat(_)
IntToFloat(n) == IF n = 0 THEN F_0_0 ELSE FAdd(IntToFloat(n - 1), F_1_0)

\* The fractions the texts offered use are exact in binary.
FractionToFloat(s) ==
    CASE s = <<>> -> F_0_0
      [] s = <<"0">> -> F_0_0
      [] s = <<"5">> -> F_0_5

FloatOfText(s) ==
    LET u == Unsigned(s)
        p == IF PointsOf(u) = {} THEN Len(u) + 1
             ELSE CHOOSE i \in PointsOf(u) : TRUE
        mag == FAdd(IntToFloat(DigitsValue(SubSeq(u, 1, p - 1))),
                    FractionToFloat(SubSeq(u, p + 1, Len(u))))
    IN IF Negative(s) THEN FNeg(mag) ELSE mag

\* The texts a user types.
IntTexts == {<<"1", "8">>, <<"3", "0">>, <<"0", ".", "5">>,
             <<"a", "b", "c">>, <<>>}
FloatTexts == {<<"0", ".", "5">>, <<"-", "1", ".", "0">>, <<"1">>,
               <<"1", "e">>, <<"a", "b", "c">>, <<>>}
EnumTexts == {<<"R", "u", "n">>, <<"S", "e", "t", "u", "p">>,
              <<"1", "8">>, <<>>}

Rejected(field, text) ==
    /\ dialog_input' = <<field, text>>
    /\ dialog_result' = "rejected"
    /\ UNCHANGED <<temperature, state, mode, percent, color, display, tasks,
                   commits, session, keys, sched, returned,
                   building>>

Committed(field, text) ==
    /\ commits < MaxEdits
    /\ commits' = commits + 1
    /\ dialog_input' = <<field, text>>
    /\ dialog_result' = "committed"
    /\ UNCHANGED <<sched, returned,
                   building>>

\* A variant that calls the routine with 0 when the text does not convert.
maxdialog_commits_default(text) ==
    /\ display = "built"
    /\ session = "running"
    /\ Committed("tmax", text)
    /\ set_demo_max_temperature(IF IsIntText(text) THEN IntOfText(text)
                                ELSE 0)

maxdialog(text) ==
    /\ display = "built"
    /\ session = "running"
    /\ IF IsIntText(text)
       THEN /\ Committed("tmax", text)
            /\ set_demo_max_temperature(IntOfText(text))
       ELSE Rejected("tmax", text)

mindialog(text) ==
    /\ display = "built"
    /\ session = "running"
    /\ IF IsIntText(text)
       THEN /\ Committed("tmin", text)
            /\ set_demo_min_temperature(IntOfText(text))
       ELSE Rejected("tmin", text)

modedialog(text) ==
    /\ display = "built"
    /\ session = "running"
    /\ IF Join(text) \in DemoModes
       THEN /\ Committed("mode", text)
            /\ set_demo_mode(Join(text))
       ELSE Rejected("mode", text)

pmaxdialog(text) ==
    /\ display = "built"
    /\ session = "running"
    /\ IF IsFloatText(text)
       THEN /\ Committed("pmax", text)
            /\ set_demo_max_percent(FloatOfText(text))
       ELSE Rejected("pmax", text)

pmindialog(text) ==
    /\ display = "built"
    /\ session = "running"
    /\ IF IsFloatText(text)
       THEN /\ Committed("pmin", text)
            /\ set_demo_min_percent(FloatOfText(text))
       ELSE Rejected("pmin", text)

(***************************************************************************)
(* Specifications.                                                         *)
(***************************************************************************)
FastTick == \E ok \in BOOLEAN : fast_ticks < MaxFastTicks /\ run_fast(ok)
SlowTick == \E ok \in BOOLEAN : slow_ticks < MaxSlowTicks /\ run_slow(ok)
Setup == \E ok \in BOOLEAN : setup_demo_display(ok)
CommitMode ==
    /\ commits < MaxCommits
    /\ commits' = commits + 1
    /\ \E m \in DemoModes : set_demo_mode(m)
    /\ UNCHANGED <<dialogs, sched, returned,
                   building>>
CommitMaxTemperature ==
    /\ commits < MaxCommits
    /\ commits' = commits + 1
    /\ \E v \in IntInputs : set_demo_max_temperature(v)
    /\ UNCHANGED <<dialogs, sched, returned,
                   building>>
CommitMinTemperature ==
    /\ commits < MaxCommits
    /\ commits' = commits + 1
    /\ \E v \in IntInputs : set_demo_min_temperature(v)
    /\ UNCHANGED <<dialogs, sched, returned,
                   building>>
CommitMaxPercent ==
    /\ commits < MaxCommits
    /\ commits' = commits + 1
    /\ \E v \in FloatInputs : set_demo_max_percent(v)
    /\ UNCHANGED <<dialogs, sched, returned,
                   building>>
CommitMinPercent ==
    /\ commits < MaxCommits
    /\ commits' = commits + 1
    /\ \E v \in FloatInputs : set_demo_min_percent(v)
    /\ UNCHANGED <<dialogs, sched, returned,
                   building>>

Next ==
    \/ Setup
    \/ FastTick
    \/ SlowTick
    \/ CommitMode
    \/ CommitMaxTemperature
    \/ CommitMinTemperature
    \/ CommitMaxPercent
    \/ CommitMinPercent

Spec == Init /\ [][Next]_vars

\* The session nobody touches: the display is built and the two coroutines
\* run; no dialog is ever committed.
FastTickUnattended ==
    \E ok \in BOOLEAN : fast_ticks < MaxFastUnattended /\ run_fast(ok)
SlowTickUnattended ==
    \E ok \in BOOLEAN : slow_ticks < MaxSlowUnattended /\ run_slow(ok)

\* The session with its keyboard: both builders, the two coroutines and
\* the keys, until Ctrl-x ends it.
SetupResponses == setup_demo_responses
FastTickUser ==
    /\ session = "running"
    /\ \E ok \in BOOLEAN : fast_ticks < MaxUserTicks /\ run_fast(ok)
SlowTickUser ==
    /\ session = "running"
    /\ \E ok \in BOOLEAN : slow_ticks < MaxUserTicks /\ run_slow(ok)
Key == \E k \in Keys : key_presses < MaxKeyPresses /\ KeyPress(k)

NextUser ==
    \/ Setup
    \/ SetupResponses
    \/ FastTickUser
    \/ SlowTickUser
    \/ Key

SpecUser == Init /\ [][NextUser]_vars

\* The session with its dialogs: what the user types goes through the
\* dialog of the field being edited.
EditMaxTemperature == \E text \in IntTexts : maxdialog(text)
EditMinTemperature == \E text \in IntTexts : mindialog(text)
EditMode == \E text \in EnumTexts : modedialog(text)
EditMaxPercent == \E text \in FloatTexts : pmaxdialog(text)
EditMinPercent == \E text \in FloatTexts : pmindialog(text)

NextDialogs ==
    \/ Setup
    \/ FastTickUser
    \/ SlowTickUser
    \/ EditMaxTemperature
    \/ EditMinTemperature
    \/ EditMode
    \/ EditMaxPercent
    \/ EditMinPercent

SpecDialogs == Init /\ [][NextDialogs]_vars

\* The session statement by statement: the runner gives control to one
\* coroutine, a commit callback, a key response or the display builder at
\* a time.
SetupByRunner == control = "runner" /\ Setup
SetupResponsesByRunner == control = "runner" /\ SetupResponses
CommitByRunner ==
    /\ control = "runner"
    /\ session = "running"
    /\ commits + key_presses < MaxInterrupts
    /\ (CommitMaxTemperature \/ CommitMaxPercent)
KeyByRunner ==
    /\ control = "runner"
    /\ commits + key_presses < MaxInterrupts
    /\ \E k \in Keys : KeyPress(k)

NextStatements ==
    \/ SetupByRunner
    \/ SetupResponsesByRunner
    \/ ResumeFast
    \/ StepFast
    \/ ResumeSlow
    \/ StepSlow
    \/ CommitByRunner
    \/ KeyByRunner

SpecStatements == Init /\ [][NextStatements]_vars

\* The session with its polls: between ticks and commits the display calls
\* the accessors, any of them, any number of times.
PollField == \E accessor \in Accessors : Poll(accessor)
CommitBetweenPolls ==
    /\ commits < MaxPollCommits
    /\ \/ CommitMode
       \/ CommitMaxTemperature
       \/ CommitMinTemperature
       \/ CommitMaxPercent
       \/ CommitMinPercent

FastTickBetweenPolls ==
    /\ session = "running"
    /\ \E ok \in BOOLEAN : fast_ticks < MaxPollFastTicks /\ run_fast(ok)

NextPoll ==
    \/ Setup
    \/ FastTickBetweenPolls
    \/ SlowTickUser
    \/ CommitBetweenPolls
    \/ PollField

SpecPoll == Init /\ [][NextPoll]_vars

\* The session with its display built call by call; the coroutines run
\* before the builder is called or after it returned.
FastTickBuilt ==
    /\ setup_pc \notin DOMAIN setup_calls
    /\ FastTickUser
SlowTickBuilt ==
    /\ setup_pc \notin DOMAIN setup_calls
    /\ SlowTickUser

NextSetup ==
    \/ BeginSetup
    \/ SetupCall
    \/ FastTickBuilt
    \/ SlowTickBuilt

SpecSetup == Init /\ [][NextSetup]_vars

NextUnattended ==
    \/ Setup
    \/ FastTickUnattended
    \/ SlowTickUnattended

SpecUnattended == Init /\ [][NextUnattended]_vars

(***************************************************************************)
(* Properties.                                                             *)
(***************************************************************************)
\* The calls a step makes, read off the tick counters.
TemperatureAdvanced == slow_ticks' # slow_ticks
PercentAdvanced == fast_ticks' # fast_ticks /\ fast_task' = "running"
ColorAdvanced ==
    color_defined /\ (fast_ticks' # fast_ticks \/ slow_ticks' # slow_ticks)

Flipped(step, current, ceiling, floor) ==
    IF current >= ceiling \/ current <= floor THEN -step ELSE step

\* C1: every advance adds step to current without clamping, and the sign of
\* step flips in exactly the calls after whose increment current >= ceiling
\* or current <= floor (equality included); no other step of the program
\* changes a step.  Stated for temperature, percent and the three channels.
C1_FlipExactlyAtBoundary ==
    [][ /\ IF TemperatureAdvanced
           THEN /\ current_temperature' =
                       current_temperature + _temperature_delta
                /\ _temperature_delta' =
                       Flipped(_temperature_delta, current_temperature',
                               max_temperature, min_temperature)
           ELSE _temperature_delta' = _temperature_delta
        /\ IF PercentAdvanced
           THEN /\ current_percent' = FAdd(current_percent, _percent_delta)
                /\ _percent_delta' =
                       IF \/ FGeq(current_percent', max_percent)
                          \/ FLeq(current_percent', min_percent)
                       THEN FNeg(_percent_delta) ELSE _percent_delta
           ELSE _percent_delta' = _percent_delta
        /\ IF ColorAdvanced
           THEN /\ demo_red_value' = demo_red_value + demo_red_delta
                /\ demo_green_value' = demo_green_value + demo_green_delta
                /\ demo_blue_value' = demo_blue_value + demo_blue_delta
                /\ demo_red_delta' =
                       Flipped(demo_red_delta, demo_red_value',
                               max_color_value, min_color_value)
                /\ demo_green_delta' =
                       Flipped(demo_green_delta, demo_green_value',
                               max_color_value, min_color_value)
                /\ demo_blue_delta' =
                       Flipped(demo_blue_delta, demo_blue_value',
                               max_color_value, min_color_value)
           ELSE color_defined =>
                    /\ demo_red_delta' = demo_red_delta
                    /\ demo_green_delta' = demo_green_delta
                    /\ demo_blue_delta' = demo_blue_delta
      ]_vars

\* Every one of the five ranges has flipped at a boundary.
C1_Witness ==
    /\ _temperature_delta = -1
    /\ _percent_delta = FNeg(F_0_1)
    /\ demo_red_delta = -3 /\ demo_red_value >= max_color_value
    /\ demo_green_delta = -6
    /\ demo_blue_delta = -9

\* C2: from the default temperature with no limit edits, after 10 advances
\* current = 30 and step = -1, after 20 more current = 10 and step = +1, the
\* pair (current, step) is back at (20, +1) after exactly 40 advances and
\* not before, and the step changes sign only at 10 and at 30.
C2_TemperatureCycle ==
    /\ slow_ticks = 10 => current_temperature = 30 /\ _temperature_delta = -1
    /\ slow_ticks = 30 => current_temperature = 10 /\ _temperature_delta = 1
    /\ slow_ticks = 40 => current_temperature = 20 /\ _temperature_delta = 1
    /\ slow_ticks \in 1..39 =>
           <<current_temperature, _temperature_delta>> # <<20, 1>>
    /\ _temperature_delta = IF slow_ticks % 40 \in 10..29 THEN -1 ELSE 1
    /\ (slow_ticks % 40 = 10) = (current_temperature = 30)
    /\ (slow_ticks % 40 = 30) = (current_temperature = 10)

C2_Witness ==
    /\ slow_ticks = 40
    /\ current_temperature = 20
    /\ _temperature_delta = 1

\* C3: from the default percent with no limit edits, after exactly 10
\* advances current equals 1.0 and the step has flipped to -0.1.
C3_PercentTenAdvances ==
    (fast_ticks = 10 /\ fast_task = "running") =>
        /\ current_percent = F_1_0
        /\ _percent_delta = FNeg(F_0_1)

\* C4: counted from construction, _update_state reselects on exactly the
\* calls numbered 5, 10, 15, ...; every other call leaves current_state_name
\* as it was, and the counter is back at 5 in the call that reselects.
C4_ReselectEveryFifthCall ==
    /\ [](/\ reselections = slow_ticks \div _state_delay
          /\ _state_count = _state_delay - (slow_ticks % _state_delay))
    /\ [][ slow_ticks' # slow_ticks =>
             IF slow_ticks' % 5 = 0
             THEN /\ reselections' = reselections + 1
                  /\ _state_count' = 5
             ELSE /\ reselections' = reselections
                  /\ current_state_name' = current_state_name
                  /\ _state_count' = _state_count - 1
         ]_vars

\* The tenth call has reselected, and drew a name other than the initial one.
C4_Witness ==
    /\ slow_ticks = 10
    /\ reselections = 2
    /\ _state_count = 5
    /\ current_state_name = "Faulted"

\* C5: mode is always one of the four DemoModes members, Disabled at first;
\* no tick of run_fast or run_slow changes it; it changes only in a step
\* that is set_demo_mode called by the mode dialog's commit.
C5_ModeOnlyByDialog ==
    /\ mode = "Disabled"
    /\ [](mode \in DemoModes)
    /\ [][ /\ (fast_ticks' # fast_ticks \/ slow_ticks' # slow_ticks)
              => mode' = mode
           /\ mode' # mode =>
                  /\ \E m \in DemoModes : set_demo_mode(m)
                  /\ commits' = commits + 1
         ]_vars

\* The mode was changed by a commit and both coroutines have ticked.
C5_Witness ==
    /\ mode = "Run"
    /\ fast_ticks >= 2 /\ fast_task = "running"
    /\ slow_ticks >= 2 /\ slow_task = "running"

Abs(x) == IF x < 0 THEN -x ELSE x

FAbs(a) == IF a[1] < 0 THEN FNeg(a) ELSE a

\* C6 as stated: once the colours are initialised, each of the three channel
\* values lies in [0, 999].
C6_ColorInRange ==
    color_defined =>
        /\ demo_red_value \in min_color_value..max_color_value
        /\ demo_green_value \in min_color_value..max_color_value
        /\ demo_blue_value \in min_color_value..max_color_value

\* C6 as amended: once the colours are initialised, each channel value is
\* less than its own step away from [0, 999].
C6_ColorWithinOneStep ==
    color_defined =>
        /\ min_color_value - Abs(demo_red_delta) < demo_red_value
        /\ demo_red_value < max_color_value + Abs(demo_red_delta)
        /\ min_color_value - Abs(demo_green_delta) < demo_green_value
        /\ demo_green_value < max_color_value + Abs(demo_green_delta)
        /\ min_color_value - Abs(demo_blue_delta) < demo_blue_value
        /\ demo_blue_value < max_color_value + Abs(demo_blue_delta)

\* A channel has gone below 0 after having turned round above 999.
C6_Witness ==
    /\ color_defined
    /\ demo_red_value < min_color_value
    /\ demo_red_delta > 0

\* C7: with the limits never edited, every range stays less than |step|
\* outside its limits, and an advance made from outside the limits moves
\* current back toward them.
C7_OvershootBelowOneStep ==
    /\ [](/\ min_temperature - Abs(_temperature_delta) < current_temperature
          /\ current_temperature < max_temperature + Abs(_temperature_delta)
          /\ FLess(FExactAdd(min_percent, FNeg(FAbs(_percent_delta))),
                   current_percent)
          /\ FLess(current_percent,
                   FExactAdd(max_percent, FAbs(_percent_delta)))
          /\ color_defined =>
                /\ min_color_value - Abs(demo_red_delta) < demo_red_value
                /\ demo_red_value < max_color_value + Abs(demo_red_delta)
                /\ min_color_value - Abs(demo_green_delta) < demo_green_value
                /\ demo_green_value < max_color_value + Abs(demo_green_delta)
                /\ min_color_value - Abs(demo_blue_delta) < demo_blue_value
                /\ demo_blue_value < max_color_value + Abs(demo_blue_delta))
    /\ [][ /\ TemperatureAdvanced =>
                /\ current_temperature > max_temperature
                       => current_temperature' < current_temperature
                /\ current_temperature < min_temperature
                       => current_temperature' > current_temperature
           /\ PercentAdvanced =>
                /\ FLess(max_percent, current_percent)
                       => FLess(current_percent', current_percent)
                /\ FLess(current_percent, min_percent)
                       => FLess(current_percent, current_percent')
           /\ ColorAdvanced =>
                /\ demo_red_value > max_color_value
                       => demo_red_value' < demo_red_value
                /\ demo_red_value < min_color_value
                       => demo_red_value' > demo_red_value
                /\ demo_green_value > max_color_value
                       => demo_green_value' < demo_green_value
                /\ demo_green_value < min_color_value
                       => demo_green_value' > demo_green_value
                /\ demo_blue_value > max_color_value
                       => demo_blue_value' < demo_blue_value
                /\ demo_blue_value < min_color_value
                       => demo_blue_value' > demo_blue_value
         ]_vars

\* The percent and a colour channel are past their ceilings at once.
C7_Witness ==
    /\ FLess(max_percent, current_percent)
    /\ color_defined
    /\ demo_red_value > max_color_value

\* 0.9999999999999999, the binary64 value 0x3FEFFFFFFFFFFFFF.
F_ten_tenths == <<134217727, 536870904>>

\* C8: after construction, display setup and ten ticks of run_fast alone,
\* with no edits, the values are the same in every run: red 530, green 560,
\* blue 590, and percent the tenth partial sum of +0.1 from 0.0.
C8_TenFastTicksDeterministic ==
    (fast_ticks = 10 /\ fast_task = "running" /\ slow_ticks = 0) =>
        /\ demo_red_value = 530
        /\ demo_green_value = 560
        /\ demo_blue_value = 590
        /\ current_percent = F_ten_tenths
        /\ current_percent =
               FAdd(FAdd(FAdd(FAdd(FAdd(FAdd(FAdd(FAdd(FAdd(FAdd(F_0_0,
               F_0_1), F_0_1), F_0_1), F_0_1), F_0_1), F_0_1), F_0_1),
               F_0_1), F_0_1), F_0_1)

C8_Witness ==
    /\ fast_ticks = 10 /\ fast_task = "running" /\ slow_ticks = 0
    /\ display = "built"
    /\ demo_blue_value = 590

\* C9: a curses.init_color failure during a tick is caught and ignored: no
\* such failure ever ends run_fast, which goes on ticking.
C9_ColorFailureIgnored ==
    fast_task # "curses.error"

\* C10: right after __init__, before any display setup, every update method
\* is total: no tick of a constructed DemoProcess can fail.
C10_TicksTotalAfterConstruction ==
    /\ fast_task # "AttributeError"
    /\ slow_task # "AttributeError"

C16_StepMagnitudeKept ==
    /\ Abs(_temperature_delta) = 1
    /\ FAbs(_percent_delta) = F_0_1
    /\ color_defined =>
           /\ Abs(demo_red_delta) = 3
           /\ Abs(demo_green_delta) = 6
           /\ Abs(demo_blue_delta) = 9

\* Blue has turned round at both ends, the others are on their way down.
C16_Witness ==
    /\ demo_blue_delta = 9 /\ demo_blue_value < 500
    /\ demo_red_delta = -3
    /\ demo_green_delta = -6
    /\ _temperature_delta = -1
    /\ _percent_delta = FNeg(F_0_1)

\* C19: a fast tick changes nothing but the colour channels and the
\* percent value and step; a slow tick changes nothing but the temperature
\* value and step, the state name and counter, and the colour channels.
\* Every tick made once the colours exist advances each channel by its
\* delta, whichever coroutine makes it.
C19_TickFrames ==
    [][ /\ fast_ticks' # fast_ticks =>
              /\ UNCHANGED <<temperature, current_state_name, _state_count,
                             reselections, mode, max_percent, min_percent>>
              /\ UNCHANGED <<slow_task, slow_ticks>>
        /\ slow_ticks' # slow_ticks =>
              /\ UNCHANGED <<percent, mode, max_temperature, min_temperature>>
              /\ UNCHANGED <<fast_task, fast_ticks>>
        /\ ColorAdvanced =>
              /\ demo_red_value' = demo_red_value + demo_red_delta
              /\ demo_green_value' = demo_green_value + demo_green_delta
              /\ demo_blue_value' = demo_blue_value + demo_blue_delta
      ]_vars

\* Two ticks of each coroutine have advanced every channel four times,
\* with a mode and a limit other than the defaults.
C19_Witness ==
    /\ fast_ticks = 2 /\ fast_task = "running"
    /\ slow_ticks = 2 /\ slow_task = "running"
    /\ demo_red_value = 512 /\ demo_green_value = 524 /\ demo_blue_value = 536
    /\ mode = "Test"
    /\ max_temperature = 22

\* A range is stuck when its current value and the value one step further
\* are both at or above the ceiling, or both at or below the floor.
TemperatureStuck ==
    LET c == current_temperature
        n == current_temperature + _temperature_delta
    IN  \/ c >= max_temperature /\ n >= max_temperature
        \/ c <= min_temperature /\ n <= min_temperature

PercentStuck ==
    LET c == current_percent
        n == FAdd(current_percent, _percent_delta)
    IN  \/ FGeq(c, max_percent) /\ FGeq(n, max_percent)
        \/ FLeq(c, min_percent) /\ FLeq(n, min_percent)

C18_Routine(k) ==
    IF k \in {KEY_UP, KEY_DOWN, KEY_RIGHT, KEY_LEFT} THEN "_kr_scroll_msgwin"
    ELSE IF k = CTRL_X THEN "kr_done_with_ui"
    ELSE IF k = CTRL_P THEN "_kr_ctrl_p_response"
    ELSE IF k = TAB THEN "kr_select_next_child"
    ELSE "kr_begin_child_edit"

C18_Effect(k) ==
    IF k = KEY_UP THEN "msgwin.scroll_up"
    ELSE IF k = KEY_DOWN THEN "msgwin.scroll_down"
    ELSE IF k = KEY_RIGHT THEN "msgwin.scroll_right"
    ELSE IF k = KEY_LEFT THEN "msgwin.scroll_left"
    ELSE IF k = CTRL_X THEN "demo_ui.kr_done_with_ui"
    ELSE IF k = CTRL_P THEN "print"
    ELSE IF k = TAB THEN "display.kr_select_next_child"
    ELSE "display.kr_begin_child_edit"

C18_Bound == {KEY_UP, KEY_DOWN, KEY_RIGHT, KEY_LEFT, CTRL_X, CTRL_P, TAB, LF}

\* C18: the key router is a mapping the two builders make and nothing else
\* changes.  Every key it holds is bound to the routine named for it (the
\* four arrows to the one scroll routine, Ctrl-x to terminate-session,
\* Ctrl-p to the message printer, Tab to select-next, Enter to begin-edit),
\* and once both builders have returned it holds exactly those eight keys.
\* Every key dispatched caused exactly one call, the one matching its code
\* (an arrow scrolls once in its own direction, no other key scrolls), and
\* a step that dispatches a key leaves the mapping as it was; a key once
\* bound is never bound to another routine.
C18_KeyRouterStatic ==
    [][ /\ \A k \in DOMAIN keymap' :
             k \in C18_Bound /\ keymap'[k] = C18_Routine(k)
        /\ (display' = "built" /\ CTRL_X \in DOMAIN keymap')
             => DOMAIN keymap' = C18_Bound
        /\ Len(toolkit_calls') = key_presses'
        /\ \A i \in DOMAIN toolkit_calls' :
             toolkit_calls'[i][2] = C18_Effect(toolkit_calls'[i][1])
        /\ key_presses' # key_presses
             => /\ keymap' = keymap
                /\ Len(toolkit_calls') = Len(toolkit_calls) + 1
                /\ SubSeq(toolkit_calls', 1, Len(toolkit_calls))
                      = toolkit_calls
        /\ \A k \in DOMAIN keymap :
             k \in DOMAIN keymap' /\ keymap'[k] = keymap[k] ]_vars

\* C18 witness: with the whole mapping in place, right arrow scrolled the
\* message window right, Tab selected the next window and Ctrl-x ended the
\* session.
C18_Witness ==
    /\ DOMAIN keymap = C18_Bound
    /\ toolkit_calls = << <<KEY_RIGHT, "msgwin.scroll_right">>,
                          <<TAB, "display.kr_select_next_child">>,
                          <<CTRL_X, "demo_ui.kr_done_with_ui">> >>
    /\ session = "done"

\* C15: while no termination signal has been given, neither coroutine has
\* ended: both are still in their loops.
C15_TasksNeverEndUnsignalled ==
    session = "running" => (fast_task = "running" /\ slow_task = "running")

(***************************************************************************)
(* The edit dialogs.                                                       *)
(***************************************************************************)
\* Texts that are not of the kind of the dialog they were typed into.
C13_Invalid(input) ==
    \/ /\ input[1] \in {"tmax", "tmin"}
       /\ input[2] \in {<<"0", ".", "5">>, <<"a", "b", "c">>, <<>>}
    \/ /\ input[1] \in {"pmax", "pmin"}
       /\ input[2] \in {<<"1", "e">>, <<"a", "b", "c">>, <<>>}
    \/ /\ input[1] = "mode"
       /\ input[2] \in {<<"1", "8">>, <<>>}

\* C13: a text that is not of the dialog's kind (integer for the
\* temperature limits, float for the percent limits, the name of a member
\* of DemoModes for the mode) never reaches the commit callback: the step
\* that enters it is a rejection that changes no attribute of the
\* DemoProcess; and the limits and the mode always hold values of their
\* kind.
C13_InvalidInputNeverCommits ==
    [][ /\ max_temperature' \in Int
        /\ min_temperature' \in Int
        /\ max_percent' \in Int \X (0 .. LimbBase - 1)
        /\ min_percent' \in Int \X (0 .. LimbBase - 1)
        /\ mode' \in DemoModes
        /\ (dialogs' # dialogs /\ C13_Invalid(dialog_input'))
             => /\ dialog_result' = "rejected"
                /\ UNCHANGED <<temperature, state, mode, percent, color,
                               commits>> ]_vars

\* C13 witness: "0.5" was committed by the dialog of the maximum percent and
\* then rejected by the dialog of the maximum temperature, which kept 30.
C13_Witness ==
    /\ dialog_input = <<"tmax", <<"0", ".", "5">> >>
    /\ dialog_result = "rejected"
    /\ commits = 1
    /\ max_percent = F_0_5
    /\ max_temperature = 30
    /\ slow_ticks = 1

(***************************************************************************)
(* Atomicity of a tick.                                                    *)
(***************************************************************************)
\* C11: a tick body is atomic for everyone else.  Whenever control is back
\* with the runner (the only states a key response, a commit callback or
\* the other coroutine can start from) neither coroutine is inside its
\* body; and while a coroutine is inside its body every step is its own:
\* nothing it does not write changes (the other coroutine's attributes and
\* position, the mode, the limits, the display, the commits, the keys).
C11_TickBodyAtomic ==
    [][ /\ control' = "runner" => (fast_pc' = 0 /\ slow_pc' = 0)
        /\ control = "run_fast" =>
              UNCHANGED <<temperature, state, mode, max_percent, min_percent,
                          display, slow_task, slow_ticks, slow_pc, commits,
                          session, keys, dialogs>>
        /\ control = "run_slow" =>
              UNCHANGED <<percent, mode, max_temperature, min_temperature,
                          display, fast_task, fast_ticks, fast_pc, commits,
                          session, keys, dialogs>>
        /\ (commits' # commits \/ key_presses' # key_presses
              \/ display' # display \/ keymap' # keymap)
             => (fast_pc = 0 /\ slow_pc = 0) ]_vars

\* C11 witness: after a commit and a tick of run_fast, run_slow is inside
\* its body: the temperature and red have advanced, green and blue have
\* not.
C11_Witness ==
    /\ control = "run_slow"
    /\ slow_pc = 4
    /\ current_temperature = 21
    /\ demo_red_value = 506
    /\ demo_green_value = 506
    /\ commits = 1
    /\ fast_ticks = 1
    /\ fast_pc = 0

(***************************************************************************)
(* The read accessors.                                                     *)
(***************************************************************************)
\* The texts of the percent values three ticks can reach.
C14_PercentText(v) ==
    CASE v = <<-40265319, 322122544>> -> "-0.30"
      [] v = <<-26843546, 214748364>> -> "-0.20"
      [] v = <<-13421773, 107374182>> -> "-0.10"
      [] v = <<0, 0>> -> "0.00"
      [] v = <<13421772, 429496730>> -> "0.10"
      [] v = <<26843545, 322122548>> -> "0.20"
      [] v = <<40265318, 214748368>> -> "0.30"
      [] OTHER -> "unlisted"

\* The texts of the limits the dialogs can commit.
C14_LimitText(v) ==
    CASE v = <<-(2^27), 0>> -> "-1.0"
      [] v = <<-(2^26), 0>> -> "-0.5"
      [] v = <<2^26, 0>> -> "0.5"
      [] v = <<2^27, 0>> -> "1.0"
      [] OTHER -> "unlisted"

C14_ModeValue == [Disabled |-> 22, Setup |-> 44, Test |-> 33, Run |-> 11]

\* What each accessor has to return in the current state.
C14_Expected(accessor) ==
    CASE accessor = "get_demo_color_text" ->
           "Color: R:" \o ToString(demo_red_value)
             \o " G:" \o ToString(demo_green_value)
             \o " B:" \o ToString(demo_blue_value)
      [] accessor = "get_demo_temperature_text" ->
           "Current Temp: " \o ToString(current_temperature)
      [] accessor = "get_demo_percent_text" ->
           "Percent: " \o C14_PercentText(current_percent)
      [] accessor = "get_demo_state_text" ->
           "Current State: " \o current_state_name
      [] accessor = "get_demo_mode_text" -> "Current Mode: " \o mode
      [] accessor = "get_demo_mode_value" -> C14_ModeValue[mode]
      [] accessor = "get_demo_tmax_text" ->
           "Max Temperature: " \o ToString(max_temperature)
      [] accessor = "get_demo_tmin_text" ->
           "Min Temperature: " \o ToString(min_temperature)
      [] accessor = "get_demo_pmax_text" ->
           "Max Percent: " \o C14_LimitText(max_percent)
      [] accessor = "get_demo_pmin_text" ->
           "Min Percent: " \o C14_LimitText(min_percent)

\* C14: a call of a read accessor, at any point between ticks and commits
\* and however often, changes no attribute of the DemoProcess, and what it
\* returns is the text (for get_demo_mode_value the number) of the
\* attribute's value at the time of the call: the value the latest tick or
\* commit left.
C14_AccessorsReadOnly ==
    [][ returned' # returned =>
          /\ UNCHANGED <<temperature, state, mode, percent, color, display,
                         tasks, commits, session, keys, dialogs, sched>>
          /\ returned'[1] \in Accessors
          /\ returned'[2] = C14_Expected(returned'[1]) ]_vars

\* C14 witness: after two ticks of run_slow and a commit of the maximum,
\* the temperature field is polled again and shows 22.
C14_Witness ==
    /\ returned = <<"get_demo_temperature_text", "Current Temp: 22">>
    /\ current_temperature = 22
    /\ max_temperature = 22
    /\ _temperature_delta = -1
    /\ commits = 1

(***************************************************************************)
(* The order of the calls in the display builder.                          *)
(***************************************************************************)
C17_Window(f) ==
    IF f \in {"timefield", "tempfield", "statefield", "colorfield",
              "percentfield"} THEN "stswin"
    ELSE IF f \in {"tmaxfield", "tminfield", "modefield", "pmaxfield",
                   "pminfield"} THEN "ctlwin"
    ELSE f

\* C17: while the display is set up, a Textfield is asked for its required
\* rows only after its update callback was set and called at least once
\* through update, so the answer is never 0; and a Textfield placed after
\* others in the same window is placed when each of them has been asked,
\* on a row below theirs.
C17_UpdateBeforeRequiredRows ==
    [][ LET before == layout.fields
            after  == layout'.fields
        IN  /\ \A f \in DOMAIN after :
                  (after[f].rows # -1
                     /\ (f \notin DOMAIN before \/ before[f].rows = -1))
                  => /\ f \in DOMAIN before
                     /\ before[f].cb
                     /\ before[f].invoked >= 1
                     /\ after[f].rows >= 1
            /\ \A f \in (DOMAIN after) \ (DOMAIN before) :
                  \A g \in DOMAIN before :
                     C17_Window(g) = C17_Window(f)
                       => before[g].rows >= 1 /\ after[f].row > before[g].row
      ]_vars

\* C17 witness: the builder returned; the ten fields it asked were each
\* updated once before, and stand on rows 1, 3, 4, 5, 6 and 1 to 5.
C17_Witness ==
    /\ display = "built"
    /\ setup_pc = Len(setup_calls) + 1
    /\ \A f \in {"timefield", "tempfield", "statefield", "colorfield",
                  "percentfield", "tmaxfield", "tminfield", "modefield",
                  "pmaxfield", "pminfield"} :
          layout.fields[f].invoked = 1 /\ layout.fields[f].rows = 1
    /\ layout.fields["percentfield"].row = 6
    /\ layout.fields["pminfield"].row = 5
    /\ layout.fields["msgfield"].rows = -1
    /\ layout.fields["msgfield"].invoked = 0

\* C21: every red, green and blue value handed to curses.init_color lies in
\* [0, 999] in every call: a stored value above 999 is handed over as 999,
\* one below 0 as 0, any other as it is.  The stored values themselves are
\* not brought back into range, and get_demo_color_text shows the stored
\* values, not the ones handed over.
C21_Clamped(value) ==
    IF value > 999 THEN 999 ELSE IF value < 0 THEN 0 ELSE value

C21_TextOf(rgb) ==
    "Color: R:" \o IntText(rgb[1]) \o " G:" \o IntText(rgb[2])
      \o " B:" \o IntText(rgb[3])

C21_HandedOverClamped ==
    /\ [](color_defined =>
            /\ Len(init_color_args) = 3
            /\ \A i \in 1..3 : init_color_args[i] \in 0..999
            /\ init_color_args = << C21_Clamped(demo_red_value),
                                    C21_Clamped(demo_green_value),
                                    C21_Clamped(demo_blue_value) >>
            /\ get_demo_color_text
                  = C21_TextOf(<<demo_red_value, demo_green_value,
                                 demo_blue_value>>)
            /\ (get_demo_color_text = C21_TextOf(init_color_args))
                  = (init_color_args = <<demo_red_value, demo_green_value,
                                         demo_blue_value>>))
    /\ [][ init_color_args' # init_color_args =>
              \A i \in 1..3 : init_color_args'[i] \in 0..999 ]_vars

\* Red is stored as 1001 and handed over as 999; the text shows 1001.
C21_Witness ==
    /\ color_defined
    /\ demo_red_value = 1001
    /\ init_color_args[1] = 999
    /\ get_demo_color_text = "Color: R:1001 G:506 B:5"

\* C22: with the limits never edited, the temperature satisfies
\* 10 <= current_temperature <= 30 in every reachable state: the step of 1
\* lands on each limit with equality, so the step turns round at 10 and at
\* 30 and nowhere else, and the temperature never passes a limit.
C22_TemperatureWithinLimits ==
    /\ [](/\ max_temperature = 30
          /\ min_temperature = 10
          /\ 10 <= current_temperature
          /\ current_temperature <= 30)
    /\ [][ /\ _temperature_delta' # _temperature_delta
               => current_temperature' \in {10, 30}
           /\ (slow_ticks' # slow_ticks /\ current_temperature' \in {10, 30})
               => _temperature_delta' = -_temperature_delta
         ]_vars

\* The temperature has come down from the upper limit to the lower one and
\* has turned round there.
C22_Witness ==
    /\ slow_ticks = 30
    /\ slow_task = "running"
    /\ current_temperature = min_temperature
    /\ _temperature_delta = 1

\* C23: between ticks the countdown satisfies 1 <= _state_count <= 5 and
\* current_state_name is the name of one of the four DemoStates members,
\* Disconnected at first; a call of _update_state that finds the countdown
\* at 1 can pick each of the four names, the one currently held included,
\* and a reselection picks nothing else.
C23_Names == {"Disconnected", "Idle", "Cycling", "Faulted"}

C23_CountdownAndName ==
    /\ current_state_name = "Disconnected"
    /\ [](/\ _state_count \in 1..5
          /\ current_state_name \in C23_Names
          /\ _state_count = 1 =>
                 \A name \in C23_Names :
                     ENABLED (_update_state /\ current_state_name' = name))
    /\ [][ reselections' # reselections =>
              /\ current_state_name' \in C23_Names
              /\ _state_count' = 5 ]_vars

\* The first reselection has picked the name that was already held, and
\* the countdown has run down to 1 again for the next one.
C23_Witness ==
    /\ reselections = 1
    /\ slow_ticks = 9
    /\ _state_count = 1
    /\ current_state_name = "Disconnected"

====
